---- MODULE Spec2Model ----
(***************************************************************************)
(* KZG opening proofs over an evaluation domain (internal/kzg/kzg.go):     *)
(* Open, DividePolyByXminusA, Verify, BatchVerifyMultiPoints and fold.     *)
(*                                                                         *)
(* The scalar field fr is modelled by the prime field of P elements.  G1   *)
(* and G2 are cyclic groups of order P; an element is written by its       *)
(* discrete logarithm to the curve generator, so group addition is         *)
(* addition mod P, scalar multiplication is multiplication mod P and the   *)
(* pairing e([x]G1, [y]G2) is x*y in the (additively written) target       *)
(* group of order P.                                                       *)
(***************************************************************************)
EXTENDS Integers, Sequences, FiniteSets, TLC

\* Order of the scalar field and of G1, G2 (a small prime standing for the
\* modulus of fr.Element).
P == 5

\* Largest polynomial length a caller passes to Commit, Open, DividePolyByXminusA.
MaxLen == 4

\* Largest evaluation (as a canonical integer) in the caller's polynomials.
MaxCoef == 2

\* Largest number of commitments, and of proofs, handed to BatchVerifyMultiPoints.
MaxN == 2

Fr == 0 .. (P - 1)
G1 == Fr
G2 == Fr

None == "none"
Nil == "nil"

(***************************************************************************)
(* Errors.                                                                 *)
(***************************************************************************)
ErrInvalidNbDigests == "number of digests is not the same as the number of polynomials"
ErrInvalidPolynomialSize == "invalid polynomial size (larger than SRS or == 0)"
ErrVerifyOpeningProof == "can't verify opening proof"
ErrVerifyBatchOpeningSinglePoint == "can't verify batch opening proof at single point"
ErrPolynomialSizeMismatch == "polynomial size does not match domain size"
ErrPointInDomain == "cannot divide by point in the domain"
ErrIndexOutOfRange == "panic: runtime error: index out of range [0] with length 0"

\* The error the group/field engine reports when its call `call` fails.
EngineError(call) == "engine error in " \o call

\* The engine call that fails during one call of this package ("none": no call fails).
EngineCalls == {"SetRandom", "MultiExpQuotients", "fold", "MultiExpPoints", "PairingCheck"}

\* A result: the error (Nil for none) and the value, which is the zero value
\* `zero` of its type when there is an error.
Ok(v) == [err |-> Nil, val |-> v]
Fail(e, zero) == [err |-> e, val |-> zero]

(***************************************************************************)
(* The field/group engine.                                                 *)
(***************************************************************************)
FrAdd(x, y) == (x + y) % P
FrSub(x, y) == (x - y + P) % P
FrMul(x, y) == (x * y) % P
FrNeg(x) == (P - x) % P
FrInverse(x) == IF x = 0 THEN 0 ELSE CHOOSE y \in Fr : (x * y) % P = 1

RECURSIVE FrExp(_, _)
FrExp(x, n) == IF n = 0 THEN 1 ELSE FrMul(x, FrExp(x, n - 1))

\* fr.BatchInvert: every nonzero entry is inverted, a zero entry stays zero.
BatchInvert(s) == [i \in 1 .. Len(s) |-> FrInverse(s[i])]

\* Element.BigInt: the canonical integer of a field element.
BigInt(x) == x % P

ScalarMultiplication(g, n) == (g * (n % P)) % P
GAdd(g, h) == (g + h) % P
GNeg(g) == (P - g) % P
GSub(g, h) == GAdd(g, GNeg(h))

RECURSIVE SumTo(_, _, _)
SumTo(points, scalars, n) ==
    IF n = 0 THEN 0
    ELSE GAdd(SumTo(points, scalars, n - 1), ScalarMultiplication(points[n], scalars[n]))

\* G1Affine.MultiExp: sum of scalars[i]*points[i]; an error when the lengths
\* differ or when the engine fails (fails).
MultiExp(points, scalars, call, fails) ==
    IF Len(points) # Len(scalars) \/ fails
    THEN Fail(EngineError(call), 0)
    ELSE Ok(SumTo(points, scalars, Len(points)))

\* curve.PairingCheck: whether the product of the pairings e(g1s[i], g2s[i])
\* is the identity of the target group.
PairingCheck(g1s, g2s, fails) ==
    IF Len(g1s) # Len(g2s) \/ fails
    THEN Fail(EngineError("PairingCheck"), FALSE)
    ELSE Ok(SumTo(g1s, g2s, Len(g1s)) = 0)

(***************************************************************************)
(* Evaluation domain, structured reference string, Commit and              *)
(* EvaluateLagrangePolynomial (the package's other files).                 *)
(***************************************************************************)
\* A generator of the multiplicative group of the field.
Generator == CHOOSE g \in 1 .. (P - 1) : \A k \in 1 .. (P - 2) : FrExp(g, k) # 1

\* The cardinalities of the power-of-two subgroups of the field's unit group.
Cardinalities == {c \in {1, 2, 4, 8} : (P - 1) % c = 0}

NewDomain(card) ==
    LET w == FrExp(Generator, (P - 1) \div card)
    IN  [Cardinality |-> card, Roots |-> [i \in 1 .. card |-> FrExp(w, i - 1)]]

isInDomain(d, x) == \E i \in 1 .. Len(d.Roots) : d.Roots[i] = x

findRootIndex(d, x) == CHOOSE i \in 1 .. Len(d.Roots) : d.Roots[i] = x

RECURSIVE SumSeq(_, _)
SumSeq(s, n) == IF n = 0 THEN 0 ELSE FrAdd(SumSeq(s, n - 1), s[n])

\* The value at point of the polynomial with evaluations p over the domain:
\* p[i] at a root, the barycentric formula elsewhere.
EvaluateLagrangePolynomial(d, p, point) ==
    IF d.Cardinality # Len(p) THEN Fail(ErrPolynomialSizeMismatch, 0)
    ELSE IF isInDomain(d, point) THEN Ok(p[findRootIndex(d, point)])
    ELSE LET terms == [i \in 1 .. Len(p) |->
                          FrMul(FrMul(p[i], d.Roots[i]),
                                FrInverse(FrSub(point, d.Roots[i])))]
             factor == FrMul(FrSub(FrExp(point, d.Cardinality), 1),
                             FrInverse(d.Cardinality % P))
         IN  Ok(FrMul(factor, SumSeq(terms, Len(p))))

\* The SRS in Lagrange form for secret alpha: G1[i] = [L_i(alpha)]G1.
NewCommitKey(d, alpha) ==
    [G1 |-> [i \in 1 .. d.Cardinality |->
                EvaluateLagrangePolynomial(d,
                    [j \in 1 .. d.Cardinality |-> IF j = i THEN 1 ELSE 0], alpha).val]]

NewOpeningKey(alpha) == [GenG1 |-> 1, GenG2 |-> 1, AlphaG2 |-> ScalarMultiplication(1, alpha)]

Commit(p, key) ==
    IF Len(p) = 0 \/ Len(p) > Len(key.G1) THEN Fail(ErrInvalidPolynomialSize, 0)
    ELSE MultiExp(SubSeq(key.G1, 1, Len(p)), p, "Commit", FALSE)

(***************************************************************************)
(* kzg.go                                                                  *)
(***************************************************************************)
OpeningProof(q, a, v) == [QuotientComm |-> q, InputPoint |-> a, ClaimedValue |-> v]

\* OpeningProof{}
NoProof == OpeningProof(0, 0, 0)

\* [f(a)]G1
claimedValueG1NotScaled(proof, key) == key.GenG1

claimedValueG1(proof, key) == ScalarMultiplication(key.GenG1, BigInt(proof.ClaimedValue))

\* [alpha - a]G2, computed as -[a]G2 + [alpha]G2
alphaMinusaG2NotNegated(proof, key) ==
    GAdd(ScalarMultiplication(key.GenG2, BigInt(proof.InputPoint)), key.AlphaG2)

alphaMinusaG2(proof, key) ==
    GAdd(GNeg(ScalarMultiplication(key.GenG2, BigInt(proof.InputPoint))), key.AlphaG2)

\* Verify: e([f(alpha) - f(a)]G1, G2) . e([-H(alpha)]G1, [alpha - a]G2) ==? 1
Verify(commitment, proof, key, pairingFails) ==
    LET claimedValueG1Aff == claimedValueG1(proof, key)
        fminusfaG1Jac == GSub(commitment, claimedValueG1Aff)
        negH == GNeg(proof.QuotientComm)
        alphaMinusaG2Jac == alphaMinusaG2(proof, key)
        check == PairingCheck(<<fminusfaG1Jac, negH>>, <<key.GenG2, alphaMinusaG2Jac>>,
                              pairingFails)
    IN  IF check.err # Nil THEN check.err
        ELSE IF ~check.val THEN ErrVerifyOpeningProof
        ELSE Nil

\* 1/(roots - a)
denomNotInverted(d, f, a) == [i \in 1 .. Len(f) |-> FrSub(d.Roots[i], a)]

denom(d, f, a) == BatchInvert([i \in 1 .. Len(f) |-> FrSub(d.Roots[i], a)])

DividePolyByXminusAUnchecked(d, f, fa, a) ==
    IF d.Cardinality # Len(f) THEN Fail(ErrPolynomialSizeMismatch, <<>>)
    ELSE LET numer == [i \in 1 .. Len(f) |-> FrSub(f[i], fa)]
         IN  Ok([i \in 1 .. Len(f) |-> FrMul(denom(d, f, a)[i], numer[i])])

\* DividePolyByXminusA: (f - fa)/(x - a) in evaluation form.
DividePolyByXminusA(d, f, fa, a) ==
    IF d.Cardinality # Len(f) THEN Fail(ErrPolynomialSizeMismatch, <<>>)
    ELSE IF isInDomain(d, a) THEN Fail(ErrPointInDomain, <<>>)
    ELSE LET numer == [i \in 1 .. Len(f) |-> FrSub(f[i], fa)]
         IN  Ok([i \in 1 .. Len(f) |-> FrMul(denom(d, f, a)[i], numer[i])])

Open(d, p, pt, key) ==
    IF Len(p) = 0 \/ Len(p) > Len(key.G1) THEN Fail(ErrInvalidPolynomialSize, NoProof)
    ELSE LET output_point == EvaluateLagrangePolynomial(d, p, pt)
         IN  IF output_point.err # Nil THEN Fail(output_point.err, NoProof)
             ELSE LET quotient_poly == DividePolyByXminusA(d, p, output_point.val, pt)
                  IN  IF quotient_poly.err # Nil THEN Fail(quotient_poly.err, NoProof)
                      ELSE LET quotientCommit == Commit(quotient_poly.val, key)
                           IN  IF quotientCommit.err # Nil THEN Fail(quotientCommit.err, NoProof)
                               ELSE Ok(OpeningProof(quotientCommit.val, pt, output_point.val))

\* The folded claimed values.
foldedEvaluationsNoFactors(nbDigests, evaluations, factors) ==
    SumSeq(evaluations, nbDigests)

foldedEvaluations(nbDigests, evaluations, factors) ==
    SumSeq([i \in 1 .. nbDigests |-> FrMul(evaluations[i], factors[i])], nbDigests)

\* fold: the folded digest sum factors[i]*digests[i] and the folded evaluation
\* sum factors[i]*evaluations[i].
fold(digests, evaluations, factors, fails) ==
    LET nbDigests == Len(digests)
        foldedEvals == foldedEvaluations(nbDigests, evaluations, factors)
        foldedDigests == MultiExp(digests, factors, "fold", fails)
    IN  IF foldedDigests.err # Nil
        THEN Fail(foldedDigests.err, [digest |-> foldedDigests.val, eval |-> foldedEvals])
        ELSE Ok([digest |-> foldedDigests.val, eval |-> foldedEvals])

\* check consistency nb proofs vs nb digests
nbMismatchOnlyFewerProofs(cs, ps) == Len(cs) > Len(ps)

nbMismatch(cs, ps) == Len(cs) # Len(ps)

\* if only one digest, call Verify
onlyOneDigestNever(cs) == FALSE

onlyOneDigest(cs) == Len(cs) = 1

\* random_i*point_i, written over randomNumbers in place
reweightedNoRandom(rs, ps) == [i \in 1 .. Len(rs) |-> ps[i].InputPoint]

reweighted(rs, ps) == [i \in 1 .. Len(rs) |-> FrMul(rs[i], ps[i].InputPoint)]

\* BatchVerifyMultiPoints with the scalars rnd drawn by SetRandom (rnd[1] is
\* the slot set to one) and with the engine call `failing` reporting an error.
\* The result: the error returned, the number of scalars drawn and the
\* number of engine calls made.
BatchVerifyMultiPoints(cs, ps, key, rnd, failing) ==
    IF nbMismatch(cs, ps) THEN [err |-> ErrInvalidNbDigests, draws |-> 0, calls |-> 0]
    ELSE IF onlyOneDigest(cs)
    THEN [err |-> Verify(cs[1], ps[1], key, failing = "PairingCheck"),
          draws |-> 0, calls |-> 1]
    ELSE IF Len(cs) = 0 THEN [err |-> ErrIndexOutOfRange, draws |-> 0, calls |-> 0]
    ELSE IF failing = "SetRandom"
    THEN [err |-> EngineError("SetRandom"), draws |-> 1, calls |-> 0]
    ELSE
    LET n == Len(cs)
        randomNumbers == [i \in 1 .. n |-> IF i = 1 THEN 1 ELSE rnd[i]]
        quotients == [i \in 1 .. n |-> ps[i].QuotientComm]
        foldedQuotients ==
            MultiExp(quotients, randomNumbers, "MultiExpQuotients",
                     failing = "MultiExpQuotients")
        evals == [i \in 1 .. n |-> ps[i].ClaimedValue]
        folded == fold(cs, evals, randomNumbers, failing = "fold")
        foldedEvalsCommit == ScalarMultiplication(key.GenG1, BigInt(folded.val.eval))
        F == GSub(folded.val.digest, foldedEvalsCommit)
        foldedPointsQuotients ==
            MultiExp(quotients, reweighted(randomNumbers, ps), "MultiExpPoints",
                     failing = "MultiExpPoints")
        lhs == GAdd(F, foldedPointsQuotients.val)
        check == PairingCheck(<<lhs, GNeg(foldedQuotients.val)>>,
                              <<key.GenG2, key.AlphaG2>>, failing = "PairingCheck")
    IN  IF foldedQuotients.err # Nil THEN [err |-> Nil, draws |-> n - 1, calls |-> 1]
        ELSE IF folded.err # Nil THEN [err |-> folded.err, draws |-> n - 1, calls |-> 2]
        ELSE IF foldedPointsQuotients.err # Nil
        THEN [err |-> foldedPointsQuotients.err, draws |-> n - 1, calls |-> 4]
        ELSE IF check.err # Nil THEN [err |-> check.err, draws |-> n - 1, calls |-> 5]
        ELSE IF ~check.val THEN [err |-> ErrVerifyOpeningProof, draws |-> n - 1, calls |-> 5]
        ELSE [err |-> Nil, draws |-> n - 1, calls |-> 5]

(***************************************************************************)
(* The callers of the package.                                             *)
(*   domain, ck, open_key  the public parameters, built once from the      *)
(*                         secret of the SRS                               *)
(*   poly, point           the polynomial and the point a prover works on  *)
(*   commitRes, openRes, divRes                                            *)
(*                         what Commit, Open and DividePolyByXminusA       *)
(*                         returned                                        *)
(*   commitments, proofs   the lists a verifier holds                      *)
(*   tamper                how proofs[1] was altered after it was verified *)
(*   failing               the engine call that failed in the last call    *)
(*   randomNumbers         the scalars of the last batch verification      *)
(*   verifyRes, batchRes   what Verify and BatchVerifyMultiPoints returned *)
(*   pc                    how far the caller is                           *)
(***************************************************************************)
VARIABLES domain, ck, open_key, poly, point, commitRes, openRes, divRes,
          commitments, proofs, tamper, failing, randomNumbers, verifyRes, batchRes, pc

vars == <<domain, ck, open_key, poly, point, commitRes, openRes, divRes,
          commitments, proofs, tamper, failing, randomNumbers, verifyRes, batchRes, pc>>

Fields == {"QuotientComm", "InputPoint", "ClaimedValue"}

NoTamper == [field |-> None, d |-> 0, accepted |-> FALSE]

\* The polynomials a prover passes: every length up to MaxLen.
Polynomials == UNION {[1 .. n -> 0 .. MaxCoef] : n \in 0 .. MaxLen}

\* The public parameters for a domain of cardinality card and the secret alpha.
Setup(card, alpha) ==
    /\ domain = NewDomain(card)
    /\ ck = NewCommitKey(NewDomain(card), alpha)
    /\ open_key = NewOpeningKey(alpha)

\* No call was made yet.
Fresh ==
    /\ commitRes = Fail(None, 0) /\ openRes = Fail(None, NoProof)
    /\ divRes = [fa |-> 0, res |-> Fail(None, <<>>)]
    /\ tamper = NoTamper /\ failing = None /\ randomNumbers = <<>>
    /\ verifyRes = None /\ batchRes = [err |-> None, draws |-> 0, calls |-> 0]

\* A prover: parameters, a polynomial and a point.
InitOpen ==
    /\ \E card \in Cardinalities, alpha \in Fr : Setup(card, alpha)
    /\ poly \in Polynomials
    /\ point \in Fr
    /\ commitments = <<>> /\ proofs = <<>>
    /\ Fresh
    /\ pc = "start"

DivideCall(fa) ==
    /\ pc = "start"
    /\ divRes' = [fa |-> fa, res |-> DividePolyByXminusA(domain, poly, fa, point)]
    /\ pc' = "divided"
    /\ UNCHANGED <<domain, ck, open_key, poly, point, commitRes, openRes, commitments,
                   proofs, tamper, failing, randomNumbers, verifyRes, batchRes>>

CommitCall ==
    /\ pc = "start"
    /\ commitRes' = Commit(poly, ck)
    /\ commitments' = IF commitRes'.err = Nil THEN <<commitRes'.val>> ELSE <<>>
    /\ pc' = "committed"
    /\ UNCHANGED <<domain, ck, open_key, poly, point, openRes, divRes, proofs, tamper,
                   failing, randomNumbers, verifyRes, batchRes>>

OpenCall ==
    /\ pc = "committed"
    /\ openRes' = Open(domain, poly, point, ck)
    /\ proofs' = IF openRes'.err = Nil THEN <<openRes'.val>> ELSE <<>>
    /\ pc' = IF Len(commitments) = 1 /\ openRes'.err = Nil THEN "ready" ELSE "failed"
    /\ UNCHANGED <<domain, ck, open_key, poly, point, commitRes, divRes, commitments,
                   tamper, failing, randomNumbers, verifyRes, batchRes>>

\* The verifier checks its one pair; the pairing of the engine may fail.
VerifyCall(pairingFails) ==
    /\ pc \in {"ready", "tampered"}
    /\ Len(commitments) = 1 /\ Len(proofs) = 1
    /\ failing' = IF pairingFails THEN "PairingCheck" ELSE None
    /\ verifyRes' = Verify(commitments[1], proofs[1], open_key, pairingFails)
    /\ pc' = IF pc = "ready" THEN "verified" ELSE "reverified"
    /\ UNCHANGED <<domain, ck, open_key, poly, point, commitRes, openRes, divRes,
                   commitments, proofs, tamper, randomNumbers, batchRes>>

\* One field of the verified proof is changed by the nonzero amount d.
Tamper(field, d) ==
    /\ pc = "verified"
    /\ failing = None
    /\ d # 0
    /\ proofs' = [proofs EXCEPT ![1] =
                     CASE field = "QuotientComm" ->
                              [@ EXCEPT !.QuotientComm = GAdd(@, d)]
                       [] field = "InputPoint" ->
                              [@ EXCEPT !.InputPoint = FrAdd(@, d)]
                       [] field = "ClaimedValue" ->
                              [@ EXCEPT !.ClaimedValue = FrAdd(@, d)]]
    /\ tamper' = [field |-> field, d |-> d, accepted |-> verifyRes = Nil]
    /\ pc' = "tampered"
    /\ UNCHANGED <<domain, ck, open_key, poly, point, commitRes, openRes, divRes,
                   commitments, failing, randomNumbers, verifyRes, batchRes>>

\* The scalars SetRandom may return for a batch of n proofs (slot 1 is set to one).
Draws(n) ==
    IF n < 2 THEN {<<>>}
    ELSE {[i \in 1 .. n |-> IF i = 1 THEN 1 ELSE r[i]] : r \in [2 .. n -> Fr]}

\* The verifier checks its lists in one batch; the scalars drawn are rnd and
\* the engine call fl, if any, fails.
BatchVerifyCall ==
    /\ pc = "ready"
    /\ \E fl \in EngineCalls \cup {None} : \E rnd \in Draws(Len(commitments)) :
           /\ failing' = fl
           /\ randomNumbers' = rnd
           /\ batchRes' = BatchVerifyMultiPoints(commitments, proofs, open_key, rnd, fl)
    /\ pc' = "batched"
    /\ UNCHANGED <<domain, ck, open_key, poly, point, commitRes, openRes, divRes,
                   commitments, proofs, tamper, verifyRes>>

NextOpen ==
    \/ \E fa \in Fr : DivideCall(fa)
    \/ CommitCall
    \/ OpenCall
    \/ \E pairingFails \in BOOLEAN : VerifyCall(pairingFails)
    \/ \E field \in Fields, d \in Fr : Tamper(field, d)

SpecOpen == InitOpen /\ [][NextOpen]_vars

\* A verifier holding one commitment and one proof of any content.
InitVerify ==
    /\ \E alpha \in Fr : Setup(2, alpha)
    /\ poly = <<>> /\ point = 0
    /\ commitments \in [1 .. 1 -> G1]
    /\ proofs \in [1 .. 1 -> [QuotientComm : G1, InputPoint : Fr, ClaimedValue : Fr]]
    /\ Fresh
    /\ pc = "ready"

NextVerify ==
    \/ \E pairingFails \in BOOLEAN : VerifyCall(pairingFails)
    \/ \E field \in Fields, d \in Fr : Tamper(field, d)
    \/ BatchVerifyCall

SpecVerify == InitVerify /\ [][NextVerify]_vars

\* The pairs a batch is made of: the openings of the Lagrange basis
\* polynomials of the domain at the points outside it, each one intact or with
\* its claimed value raised by one.
Pairs ==
    {[commitment |-> Commit(f, ck).val,
      proof |-> [Open(domain, f, a, ck).val EXCEPT !.ClaimedValue = FrAdd(@, e)]] :
        <<f, a, e>> \in
            {[j \in 1 .. domain.Cardinality |-> IF j = i THEN 1 ELSE 0] :
                 i \in 1 .. domain.Cardinality}
            \X {x \in Fr : ~isInDomain(domain, x)}
            \X {0, 1}}

\* A verifier holding up to MaxN commitments and up to MaxN proofs.
InitBatch ==
    /\ \E alpha \in Fr : Setup(2, alpha)
    /\ poly = <<>> /\ point = 0
    /\ \E k \in 0 .. MaxN : \E ps \in [1 .. k -> Pairs] : \E m, n \in 0 .. k :
           /\ m = k \/ n = k
           /\ commitments = [i \in 1 .. m |-> ps[i].commitment]
           /\ proofs = [i \in 1 .. n |-> ps[i].proof]
    /\ Fresh
    /\ pc = "ready"

NextBatch == BatchVerifyCall

SpecBatch == InitBatch /\ [][NextBatch]_vars

(***************************************************************************)
(* Properties.                                                             *)
(***************************************************************************)
\* The prover's polynomial fits the domain and the commit key, and its point
\* is no root of the domain.
Openable ==
    /\ Len(poly) = domain.Cardinality
    /\ 0 < Len(poly) /\ Len(poly) <= Len(ck.G1)
    /\ ~isInDomain(domain, point)

\* C1: round trip.  For a polynomial of the domain's size (nonempty, within
\* the commit key) and a point outside the domain, Open returns a proof
\* without error and Verify accepts it for Commit of the polynomial.
C1_RoundTrip ==
    Openable =>
        /\ openRes.err # None => openRes.err = Nil /\ pc # "failed"
        /\ pc = "verified" /\ failing = None => verifyRes = Nil

C1_Witness ==
    /\ Openable
    /\ domain.Cardinality = 4
    /\ \E i \in 1 .. Len(poly) : poly[i] # poly[1]
    /\ pc = "verified" /\ failing = None
    /\ verifyRes = Nil

\* C2: a proof made by Open whose ClaimedValue is then raised by a nonzero
\* scalar d, the rest unchanged, is rejected by Verify with
\* ErrVerifyOpeningProof.
C2_TamperedValueRejected ==
    pc = "reverified" /\ failing = None /\ tamper.field = "ClaimedValue"
        => verifyRes = ErrVerifyOpeningProof

C2_Witness ==
    /\ pc = "reverified" /\ failing = None
    /\ tamper.field = "ClaimedValue" /\ tamper.d = 1 /\ tamper.accepted
    /\ openRes.err = Nil
    /\ verifyRes = ErrVerifyOpeningProof

\* A proof Verify accepted was altered in field, and Verify ran again.
Retried(field) ==
    pc = "reverified" /\ failing = None /\ tamper.accepted /\ tamper.field = field

\* C3 as stated: every valid proof whose InputPoint is changed by a nonzero
\* scalar, or whose QuotientComm is changed by a non-identity element, is
\* rejected by Verify with ErrVerifyOpeningProof.
C3_TamperedPointOrQuotientRejected ==
    Retried("InputPoint") \/ Retried("QuotientComm")
        => verifyRes = ErrVerifyOpeningProof

\* C3 amended: a valid proof whose InputPoint is changed by a nonzero scalar
\* is rejected when its QuotientComm is not the identity, and is still
\* accepted when it is; a valid proof whose QuotientComm is changed by a
\* non-identity element is rejected when [InputPoint]GenG2 differs from
\* AlphaG2, and is still accepted when they are equal.
C3_TamperedRejectedUnlessDegenerate ==
    /\ Retried("InputPoint") =>
           (verifyRes = ErrVerifyOpeningProof <=> proofs[1].QuotientComm # 0)
    /\ Retried("InputPoint") /\ proofs[1].QuotientComm = 0 => verifyRes = Nil
    /\ Retried("QuotientComm") =>
           (verifyRes = ErrVerifyOpeningProof <=>
                ScalarMultiplication(open_key.GenG2, proofs[1].InputPoint)
                    # open_key.AlphaG2)
    /\ Retried("QuotientComm")
           /\ ScalarMultiplication(open_key.GenG2, proofs[1].InputPoint) = open_key.AlphaG2
           => verifyRes = Nil

C3_Witness ==
    /\ Retried("QuotientComm")
    /\ proofs[1].QuotientComm # 0
    /\ ScalarMultiplication(open_key.GenG2, proofs[1].InputPoint) # open_key.AlphaG2
    /\ verifyRes = ErrVerifyOpeningProof

\* The batch call ran on n >= 2 pairs and no engine call failed.
Batched ==
    /\ pc = "batched" /\ failing = None
    /\ Len(commitments) = Len(proofs) /\ Len(commitments) >= 2

\* The pairs Verify rejects.
Invalid == {i \in 1 .. Len(proofs) : Verify(commitments[i], proofs[i], open_key, FALSE) # Nil}

\* C4: when exactly one of n >= 2 pairs is invalid and the scalar that
\* multiplies it is nonzero (always so for the first pair, whose scalar is
\* one), the batch is rejected with ErrVerifyOpeningProof.
C4_BatchSoundness ==
    Batched /\ Cardinality(Invalid) = 1 /\ (\A i \in Invalid : randomNumbers[i] # 0)
        => batchRes.err = ErrVerifyOpeningProof

C4_Witness ==
    /\ Batched /\ Invalid = {2}
    /\ randomNumbers[2] > 1
    /\ batchRes.err = ErrVerifyOpeningProof

\* C5: with n >= 2, an error of the engine in the multi-exponentiation of the
\* quotients, in fold, in the multi-exponentiation with the re-weighted
\* scalars or in the pairing check is the error the batch call returns.
C5_EngineErrorsPropagate ==
    /\ pc = "batched"
    /\ Len(commitments) = Len(proofs) /\ Len(commitments) >= 2
    /\ failing \in {"MultiExpQuotients", "fold", "MultiExpPoints", "PairingCheck"}
    => batchRes.err = EngineError(failing)

\* C6 as stated: with the point on a root of the domain,
\* DividePolyByXminusA and Open fail with the point-in-domain error whatever
\* the polynomial, and return no quotient and no proof.
C6_DomainPointRejected ==
    isInDomain(domain, point) =>
        /\ divRes.res.err # None => divRes.res = Fail(ErrPointInDomain, <<>>)
        /\ openRes.err # None => openRes = Fail(ErrPointInDomain, NoProof)

\* C6 amended: so they do when the polynomial has the domain's size (for
\* Open: a size that is also nonzero and within the commit key).
C6_DomainPointRejectedForDomainSize ==
    isInDomain(domain, point) /\ Len(poly) = domain.Cardinality =>
        /\ divRes.res.err # None => divRes.res = Fail(ErrPointInDomain, <<>>)
        /\ openRes.err # None /\ 0 < Len(poly) /\ Len(poly) <= Len(ck.G1)
               => openRes = Fail(ErrPointInDomain, NoProof) /\ proofs = <<>>

C6_Witness ==
    /\ isInDomain(domain, point) /\ Len(poly) = domain.Cardinality
    /\ domain.Cardinality > 1 /\ point # 1
    /\ openRes = Fail(ErrPointInDomain, NoProof)

\* C7: with exactly one pair the batch call returns what Verify returns on
\* that pair (under the same behaviour of the engine) and draws no scalar.
C7_SingleIsVerify ==
    pc = "batched" /\ Len(commitments) = 1 /\ Len(proofs) = 1 =>
        /\ batchRes.err = Verify(commitments[1], proofs[1], open_key, failing = "PairingCheck")
        /\ batchRes.draws = 0

C7_Witness ==
    /\ pc = "batched" /\ Len(commitments) = 1 /\ Len(proofs) = 1
    /\ failing = "MultiExpQuotients"
    /\ batchRes.err = ErrVerifyOpeningProof

\* C8: lists of different lengths get ErrInvalidNbDigests, before any scalar
\* is drawn and before any call of the engine.
C8_CountMismatch ==
    pc = "batched" /\ Len(commitments) # Len(proofs) =>
        /\ batchRes.err = ErrInvalidNbDigests
        /\ batchRes.draws = 0 /\ batchRes.calls = 0

C8_Witness ==
    /\ pc = "batched" /\ Len(commitments) = 1 /\ Len(proofs) = 2
    /\ failing = "PairingCheck"
    /\ batchRes.err = ErrInvalidNbDigests

\* The value in the target group of the equation Verify checks for pair i.
Residual(i) ==
    FrAdd(FrMul(GSub(commitments[i],
                     ScalarMultiplication(open_key.GenG1, proofs[i].ClaimedValue)),
                open_key.GenG2),
          FrMul(GNeg(proofs[i].QuotientComm),
                GSub(open_key.AlphaG2,
                     ScalarMultiplication(open_key.GenG2, proofs[i].InputPoint))))

\* C9: n >= 2 pairs that Verify accepts one by one pass the batch call for
\* every draw of the scalars; the batch check is the combination of the
\* equations of the pairs weighted by the scalars as drawn.
C9_BatchCompleteness ==
    Batched =>
        /\ Invalid = {} => batchRes.err = Nil
        /\ batchRes.err = Nil <=>
               SumSeq([i \in 1 .. Len(proofs) |-> FrMul(randomNumbers[i], Residual(i))],
                      Len(proofs)) = 0

C9_Witness ==
    /\ Batched /\ Invalid = {}
    /\ randomNumbers[2] > 1
    /\ proofs[2].InputPoint > 1 /\ proofs[2].QuotientComm # 0
    /\ proofs[1].InputPoint # proofs[2].InputPoint
    /\ batchRes.err = Nil

\* C10: for lists of one length, the empty ones included, the batch call
\* returns success or an error of the package or of the engine.
C10_BatchAlwaysReturns ==
    pc = "batched" /\ Len(commitments) = Len(proofs) =>
        batchRes.err \in {Nil, ErrVerifyOpeningProof, ErrInvalidNbDigests}
                             \cup {EngineError(c) : c \in EngineCalls}

====
